---------------------------- MODULE Spec2Model ----------------------------
(***************************************************************************)
(* Model of src/src/components/BauCuaGame.tsx: the Bau Cua bowl-and-dice   *)
(* widget.  It covers the component's React state (isShaking,              *)
(* isReadyToOpen, isBowlOpen, isSoundOn, results), the refs the handlers   *)
(* read (synthRef, diceBodiesRef), the two setTimeout timers, the          *)
(* handleShake invocations suspended at `await Tone.start()`, and the      *)
(* per-body computation of openBowl's reveal callback (the orientation     *)
(* resolver).                                                              *)
(*                                                                         *)
(* Numbers.  A body's orientation is held as an integer quaternion q that  *)
(* stands for the unit quaternion q/|q|.  CANNON.Quaternion.vmult is a     *)
(* quadratic form in q, so vmult(q, v) computed on the integer quaternion  *)
(* is |q|^2 times the rotated vector of the unit quaternion: every dot     *)
(* product is scaled by the same positive factor, and the comparisons the  *)
(* resolver makes (dots[i] > dots[maxDotIndex]) come out as for the unit   *)
(* quaternion in exact arithmetic.  Floating-point rounding is not         *)
(* modelled.                                                               *)
(*                                                                         *)
(* Rendering.  Every event runs against the latest rendered state (React   *)
(* re-renders between events); the one place where a handler acts on state *)
(* it read earlier is the continuation of handleShake after its await.     *)
(***************************************************************************)
EXTENDS Integers, Sequences, FiniteSets

VARIABLES
    isShaking,       \* useState(false), line 21
    isReadyToOpen,   \* useState(false), line 22
    isBowlOpen,      \* useState(false), line 23
    isSoundOn,       \* useState(true),  line 24
    results,         \* useState<number[]>([]), line 25
    synthRef,        \* TRUE when synthRef.current is set, line 19
    diceBodiesRef,   \* diceBodiesRef.current: the CANNON bodies, line 18
    settleTimers,    \* pending setTimeout(..., 2000) of handleShake: ms left
    revealTimers,    \* pending setTimeout(..., 500) of openBowl: ms left
    toneStarts       \* handleShake invocations suspended at await Tone.start()

vars == <<isShaking, isReadyToOpen, isBowlOpen, isSoundOn, results, synthRef,
          diceBodiesRef, settleTimers, revealTimers, toneStarts>>

(***************************************************************************)
(* Bounds of the model.                                                    *)
(***************************************************************************)
\* largest absolute value of a component of an input quaternion
MaxComp == 2
\* largest absolute value of a component of a yaw quaternion (0, s, 0, c)
MaxYaw == 2
\* most handleShake invocations suspended at Tone.start() at one time
MaxAwait == 2
\* most runs of the mount effect on one component instance
MaxMounts == 2

(***************************************************************************)
(* Program constants.                                                      *)
(***************************************************************************)
SettleDelay == 2000
RevealDelay == 500
NumDice == 3

----------------------------------------------------------------------------
(***************************************************************************)
(* Vectors and quaternions (cannon-es Vec3 and Quaternion).                *)
(***************************************************************************)
Vec3(x, y, z) == <<x, y, z>>

Quat(x, y, z, w) == [x |-> x, y |-> y, z |-> z, w |-> w]

\* Vec3.dot
dot(a, b) == a[1] * b[1] + a[2] * b[2] + a[3] * b[3]

\* mutant: vmult with the conjugate left out (q * v * q)
vmultNoConjugate(q, v) ==
    LET ix == q.w * v[1] + q.y * v[3] - q.z * v[2]
        iy == q.w * v[2] + q.z * v[1] - q.x * v[3]
        iz == q.w * v[3] + q.x * v[2] - q.y * v[1]
        iw == (0 - q.x) * v[1] - q.y * v[2] - q.z * v[3]
    IN  Vec3(ix * q.w + iw * q.x + iy * q.z - iz * q.y,
             iy * q.w + iw * q.y + iz * q.x - ix * q.z,
             iz * q.w + iw * q.z + ix * q.y - iy * q.x)

\* Quaternion.vmult: q * v * conj(q)
vmult(q, v) ==
    LET ix == q.w * v[1] + q.y * v[3] - q.z * v[2]
        iy == q.w * v[2] + q.z * v[1] - q.x * v[3]
        iz == q.w * v[3] + q.x * v[2] - q.y * v[1]
        iw == (0 - q.x) * v[1] - q.y * v[2] - q.z * v[3]
    IN  Vec3(ix * q.w + iw * (0 - q.x) + iy * (0 - q.z) - iz * (0 - q.y),
             iy * q.w + iw * (0 - q.y) + iz * (0 - q.x) - ix * (0 - q.z),
             iz * q.w + iw * (0 - q.z) + ix * (0 - q.y) - iy * (0 - q.x))

\* Quaternion.mult: the rotation b followed by the rotation a
qmult(a, b) ==
    Quat(a.x * b.w + a.w * b.x + a.y * b.z - a.z * b.y,
         a.y * b.w + a.w * b.y + a.z * b.x - a.x * b.z,
         a.z * b.w + a.w * b.z + a.x * b.y - a.y * b.x,
         a.w * b.w - a.x * b.x - a.y * b.y - a.z * b.z)

\* |q|^2, the factor by which vmult on an integer quaternion is scaled
normSquared(q) == q.x * q.x + q.y * q.y + q.z * q.z + q.w * q.w

----------------------------------------------------------------------------
(***************************************************************************)
(* The orientation resolver: the body of the forEach in openBowl's reveal  *)
(* callback.  Sequences are 1-based here; face indices stay 0-based as in  *)
(* the source, so face index k is element k + 1.                           *)
(***************************************************************************)
\* mutant: world up taken along Z
upVectorAlongZ == Vec3(0, 0, 1)

upVector == Vec3(0, 1, 0)

faces == << Vec3(1, 0, 0), Vec3(-1, 0, 0),
            Vec3(0, 1, 0), Vec3(0, -1, 0),
            Vec3(0, 0, 1), Vec3(0, 0, -1) >>

\* mutant: the symbols of +Y and -Y exchanged
faceMapSwapped == <<1, 6, 5, 2, 3, 4>>

\* mutant: the symbols numbered from 0
faceMapZeroBased == <<0, 5, 1, 4, 2, 3>>

faceMap == <<1, 6, 2, 5, 3, 4>>

faceVectors(q) == [k \in 1..Len(faces) |-> vmult(q, faces[k])]

dots(q) ==
    LET rotated == faceVectors(q)
    IN  [k \in 1..Len(faces) |-> dot(rotated[k], upVector)]

\* mutant: >= in place of >, so that the last of several maxima wins
isLargerOrEqual(d, i, m) == d[i + 1] >= d[m + 1]

\* the comparison of the scan: does dots[i] replace the current maximum?
isLarger(d, i, m) == d[i + 1] > d[m + 1]

\* the scan `for (let i = 1; i < dots.length; i++)` with maxDotIndex = m
RECURSIVE scanMax(_, _, _)
scanMax(d, i, m) ==
    IF i >= Len(d) THEN m
    ELSE scanMax(d, i + 1, IF isLarger(d, i, m) THEN i ELSE m)

maxDotIndex(q) == LET d == dots(q) IN scanMax(d, 1, 0)

\* what the callback pushes for a body with quaternion q
resolveBody(q) == faceMap[maxDotIndex(q) + 1]

----------------------------------------------------------------------------
(***************************************************************************)
(* Rigid bodies.  velocity is "rest" for a body with zero velocity and     *)
(* angular velocity, "thrown" once handleShake has set them.               *)
(***************************************************************************)
identityQuat == Quat(0, 0, 0, 1)

newBody == [quaternion |-> identityQuat, velocity |-> "rest"]

\* createDice: three bodies pushed onto diceBodiesRef.current
createDice == [i \in 1..NumDice |-> newBody]

\* the orientations the physics step hands out in the game model: the
\* identity (+Y up) and a quarter turn about X (-Z up)
GameOrientations == { identityQuat, Quat(1, 0, 0, 1) }

\* the state of the component as one record
State ==
    [isShaking |-> isShaking, isReadyToOpen |-> isReadyToOpen,
     isBowlOpen |-> isBowlOpen, isSoundOn |-> isSoundOn, results |-> results,
     synthRef |-> synthRef, diceBodiesRef |-> diceBodiesRef,
     settleTimers |-> settleTimers, revealTimers |-> revealTimers,
     toneStarts |-> toneStarts]

\* the component takes the state s
Becomes(s) ==
    /\ isShaking' = s.isShaking
    /\ isReadyToOpen' = s.isReadyToOpen
    /\ isBowlOpen' = s.isBowlOpen
    /\ isSoundOn' = s.isSoundOn
    /\ results' = s.results
    /\ synthRef' = s.synthRef
    /\ diceBodiesRef' = s.diceBodiesRef
    /\ settleTimers' = s.settleTimers
    /\ revealTimers' = s.revealTimers
    /\ toneStarts' = s.toneStarts

\* the phase the flags show, as getButtonText and the button's
\* disabled={isShaking} read them
PhaseOf(s) ==
    IF s.isShaking THEN "Shaking"
    ELSE IF s.isBowlOpen THEN "Open"
    ELSE IF s.isReadyToOpen THEN "ReadyToOpen"
    ELSE "Idle"

Phase == PhaseOf(State)

----------------------------------------------------------------------------
(***************************************************************************)
(* The handlers, each as the state it leaves behind when run on state s.   *)
(***************************************************************************)
\* worldRef.current is set by initializePhysics in the mount effect and never
\* cleared
worldRef == TRUE

\* lines 177-195: the part of handleShake that starts a shake
startShake(s) ==
    [s EXCEPT !.isShaking = TRUE,
              !.isReadyToOpen = FALSE,
              !.diceBodiesRef =
                  [i \in DOMAIN s.diceBodiesRef |->
                      [s.diceBodiesRef[i] EXCEPT !.velocity = "thrown"]],
              !.settleTimers = Append(s.settleTimers, SettleDelay)]

\* mutant: the reset without setResults([])
resetGameKeepsResults(s) ==
    [s EXCEPT !.isBowlOpen = FALSE, !.isReadyToOpen = FALSE]

\* mutant: the reset without its return, falling through to the shake
resetGameThenShake(s) ==
    startShake([s EXCEPT !.isBowlOpen = FALSE, !.isReadyToOpen = FALSE,
                         !.results = <<>>])

\* lines 164-170: the bowl is open, the game is reset
resetGame(s) ==
    [s EXCEPT !.isBowlOpen = FALSE, !.isReadyToOpen = FALSE, !.results = <<>>]

\* mutant: the guard of line 162 with && in place of ||
handleShakeWeakGuard(s) ==
    IF s.isShaking /\ ~worldRef THEN s
    ELSE IF s.isBowlOpen THEN resetGame(s)
    ELSE IF ~s.synthRef /\ s.isSoundOn
         THEN [s EXCEPT !.toneStarts = @ + 1]
    ELSE startShake(s)

\* handleShake up to its first await (or to its end when it does not await)
handleShake(s) ==
    IF s.isShaking \/ ~worldRef THEN s
    ELSE IF s.isBowlOpen THEN resetGame(s)
    ELSE IF ~s.synthRef /\ s.isSoundOn
         THEN [s EXCEPT !.toneStarts = @ + 1]
    ELSE startShake(s)

\* handleShake from the resolution of Tone.start() on: setupAudio, then the
\* shake.  The guards of lines 162 and 164 are not read again.
resumeShake(s) ==
    startShake([s EXCEPT !.toneStarts = @ - 1, !.synthRef = TRUE])

\* mutant: the guard of line 199 with && in place of ||
openBowlWeakGuard(s) ==
    IF ~s.isReadyToOpen /\ s.isBowlOpen THEN s
    ELSE [s EXCEPT !.isBowlOpen = TRUE,
                   !.revealTimers = Append(s.revealTimers, RevealDelay)]

\* openBowl, up to the scheduling of the reveal callback
openBowl(s) ==
    IF ~s.isReadyToOpen \/ s.isBowlOpen THEN s
    ELSE [s EXCEPT !.isBowlOpen = TRUE,
                   !.revealTimers = Append(s.revealTimers, RevealDelay)]

handleMainButton(s) ==
    IF s.isShaking THEN s
    ELSE IF ~s.isReadyToOpen /\ ~s.isBowlOpen THEN handleShake(s)
    ELSE IF s.isReadyToOpen /\ ~s.isBowlOpen THEN openBowl(s)
    ELSE IF s.isBowlOpen THEN handleShake(s)
    ELSE s

\* the callback of handleShake's setTimeout
settleCallback(s) ==
    [s EXCEPT !.isShaking = FALSE,
              !.isReadyToOpen = TRUE,
              !.settleTimers = Tail(@)]

\* mutant: unshift in place of push, so that the results come out reversed
RECURSIVE unshiftResults(_, _)
unshiftResults(bodies, acc) ==
    IF bodies = <<>> THEN acc
    ELSE unshiftResults(Tail(bodies),
                        <<resolveBody(Head(bodies).quaternion)>> \o acc)

\* results.push(faceMap[maxDotIndex]) for each body, in forEach order
RECURSIVE pushResults(_, _)
pushResults(bodies, acc) ==
    IF bodies = <<>> THEN acc
    ELSE pushResults(Tail(bodies), Append(acc, resolveBody(Head(bodies).quaternion)))

\* mutant: the results set from the first body alone
revealFirstBodyOnly(s) ==
    [s EXCEPT !.results = pushResults(SubSeq(s.diceBodiesRef, 1, 1), <<>>),
              !.revealTimers = Tail(@)]

\* the callback of openBowl's setTimeout
revealCallback(s) ==
    [s EXCEPT !.results = pushResults(s.diceBodiesRef, <<>>),
              !.revealTimers = Tail(@)]

\* onClick of the sound button
toggleSound(s) == [s EXCEPT !.isSoundOn = ~@]

----------------------------------------------------------------------------
(***************************************************************************)
(* Time.  A timer holds the milliseconds left to its expiry; a sequence of *)
(* timers of one kind is in scheduling order, hence in expiry order.  Time *)
(* passes up to the next expiry; an expired timer's callback runs before   *)
(* more time passes, but events may still be handled before it.            *)
(***************************************************************************)
Pending == settleTimers \o revealTimers

Min(S) == CHOOSE m \in S : \A n \in S : m <= n

NextExpiry == Min({Pending[i] : i \in DOMAIN Pending})

elapse(timers, d) == [i \in DOMAIN timers |-> timers[i] - d]

----------------------------------------------------------------------------
(***************************************************************************)
(* The actions.                                                            *)
(***************************************************************************)
\* state after the mount effect: createDice has run once
Init ==
    /\ isShaking = FALSE
    /\ isReadyToOpen = FALSE
    /\ isBowlOpen = FALSE
    /\ isSoundOn = TRUE
    /\ results = <<>>
    /\ synthRef = FALSE
    /\ diceBodiesRef = createDice
    /\ settleTimers = <<>>
    /\ revealTimers = <<>>
    /\ toneStarts = 0

\* a click on the main button or on the bowl overlay
MainButton ==
    LET t == handleMainButton(State)
    IN  /\ t.toneStarts <= MaxAwait
        /\ Becomes(t)

\* a click on the sound button
SoundButton == Becomes(toggleSound(State))

\* the promise of Tone.start() resolves for one suspended handleShake
ToneStarted ==
    /\ toneStarts > 0
    /\ Becomes(resumeShake(State))

\* Time passes to the next expiry
Tick ==
    /\ Pending # <<>>
    /\ NextExpiry > 0
    /\ settleTimers' = elapse(settleTimers, NextExpiry)
    /\ revealTimers' = elapse(revealTimers, NextExpiry)
    /\ UNCHANGED <<isShaking, isReadyToOpen, isBowlOpen, isSoundOn, results,
                   synthRef, diceBodiesRef, toneStarts>>

\* the settle timer fires
SettleTimeout ==
    /\ settleTimers # <<>>
    /\ Head(settleTimers) = 0
    /\ Becomes(settleCallback(State))

\* the reveal timer fires
RevealTimeout ==
    /\ revealTimers # <<>>
    /\ Head(revealTimers) = 0
    /\ Becomes(revealCallback(State))

\* the bodies of worldRef.current: the ones the latest createDice added to it
InWorld(i) == i > Len(diceBodiesRef) - NumDice

\* animate: world.step(1/60) moves the thrown bodies.  Where each ends up is
\* the physics engine's business; the bodies are taken to come to rest in the
\* same step.
WorldStep ==
    /\ \E i \in DOMAIN diceBodiesRef :
          InWorld(i) /\ diceBodiesRef[i].velocity = "thrown"
    /\ \E quats \in [{i \in DOMAIN diceBodiesRef : InWorld(i)} -> GameOrientations],
          v \in {"thrown", "rest"} :
          diceBodiesRef' =
              [i \in DOMAIN diceBodiesRef |->
                  IF InWorld(i) /\ diceBodiesRef[i].velocity = "thrown"
                  THEN [quaternion |-> quats[i], velocity |-> v]
                  ELSE diceBodiesRef[i]]
    /\ UNCHANGED <<isShaking, isReadyToOpen, isBowlOpen, isSoundOn, results,
                   synthRef, settleTimers, revealTimers, toneStarts>>

Next ==
    \/ MainButton
    \/ SoundButton
    \/ ToneStarted
    \/ Tick
    \/ SettleTimeout
    \/ RevealTimeout
    \/ WorldStep

Spec == Init /\ [][Next]_vars

\* the reveal callback runs, whatever round result it computes.  Next admits
\* such a step only as RevealTimeout, so that fairness for this action is
\* fairness for RevealTimeout; it spares the evaluation of the resolver in
\* every test of enabledness.
RevealCallbackRuns ==
    /\ revealTimers # <<>>
    /\ Head(revealTimers) = 0
    /\ revealTimers' = Tail(revealTimers)
    /\ results' \in [1..Len(diceBodiesRef) -> 1..6]
    /\ UNCHANGED <<isShaking, isReadyToOpen, isBowlOpen, isSoundOn, synthRef,
                   diceBodiesRef, settleTimers, toneStarts>>

\* the event loop runs every callback that is due, and time passes
FairSpec ==
    /\ Spec
    /\ WF_vars(Tick)
    /\ WF_vars(SettleTimeout)
    /\ WF_vars(RevealCallbackRuns)

\* the mount effect once more on the same component instance (its cleanup
\* disposes the renderer only): initializePhysics makes a new world and
\* createDice pushes its bodies onto the diceBodiesRef.current that is there
mountEffect(s) ==
    [s EXCEPT !.diceBodiesRef = s.diceBodiesRef \o createDice]

\* nothing has been handled since the mount effect ran
JustMounted ==
    /\ ~isShaking /\ ~isReadyToOpen /\ ~isBowlOpen /\ isSoundOn
    /\ results = <<>>
    /\ ~synthRef
    /\ \A i \in DOMAIN diceBodiesRef : diceBodiesRef[i] = newBody
    /\ settleTimers = <<>> /\ revealTimers = <<>>
    /\ toneStarts = 0

\* React runs the mount effect again right after mounting, as it does for a
\* component under StrictMode (state and refs are kept)
MountEffect ==
    /\ JustMounted
    /\ Len(diceBodiesRef) < NumDice * MaxMounts
    /\ Becomes(mountEffect(State))

NextRemount ==
    \/ MainButton
    \/ SoundButton
    \/ ToneStarted
    \/ Tick
    \/ SettleTimeout
    \/ RevealTimeout
    \/ WorldStep
    \/ MountEffect

SpecRemount == Init /\ [][NextRemount]_vars

----------------------------------------------------------------------------
(***************************************************************************)
(* The resolver on its own: the moment after an accepted open, with the    *)
(* reveal timer pending and the dice still tumbling in any orientation.    *)
(* Die 0 takes every integer quaternion within MaxComp, dice 1 and 2 the   *)
(* orientations of the game model; a world step turns die 0 about the      *)
(* world-up axis.                                                          *)
(***************************************************************************)
Quaternions ==
    { q \in [x : -MaxComp..MaxComp, y : -MaxComp..MaxComp,
             z : -MaxComp..MaxComp, w : -MaxComp..MaxComp] :
        normSquared(q) > 0 }

\* rotations about the world-up axis: (0, s, 0, c) is a yaw by 2*atan2(s, c);
\* y and -y are the same rotation, so s >= 0 reaches every yaw of the range
YawRotations ==
    { Quat(0, s, 0, c) : s \in 0..MaxYaw, c \in -MaxYaw..MaxYaw }
        \ { Quat(0, 0, 0, 0) }

InitResolver ==
    /\ isShaking = FALSE
    /\ isReadyToOpen = TRUE
    /\ isBowlOpen = TRUE
    /\ isSoundOn = TRUE
    /\ results = <<>>
    /\ synthRef = TRUE
    /\ \E q0 \in Quaternions, q1 \in GameOrientations, q2 \in GameOrientations :
          diceBodiesRef = << [quaternion |-> q0, velocity |-> "thrown"],
                             [quaternion |-> q1, velocity |-> "thrown"],
                             [quaternion |-> q2, velocity |-> "thrown"] >>
    /\ settleTimers = <<>>
    /\ revealTimers = <<RevealDelay>>
    /\ toneStarts = 0

\* world.step turns die 0 about the world-up axis
YawStep ==
    /\ diceBodiesRef[1].velocity = "thrown"
    /\ \E y \in YawRotations :
          /\ qmult(y, diceBodiesRef[1].quaternion) \in Quaternions
          /\ diceBodiesRef' =
                [diceBodiesRef EXCEPT
                    ![1].quaternion = qmult(y, diceBodiesRef[1].quaternion)]
    /\ UNCHANGED <<isShaking, isReadyToOpen, isBowlOpen, isSoundOn, results,
                   synthRef, settleTimers, revealTimers, toneStarts>>

NextResolver ==
    \/ YawStep
    \/ Tick
    \/ RevealTimeout

SpecResolver == InitResolver /\ [][NextResolver]_vars

----------------------------------------------------------------------------
(***************************************************************************)
(* What the claims speak of, stated without the resolver's own code: the   *)
(* height of a rotated face direction is read off the rotation matrix of   *)
(* q (its middle row), scaled by |q|^2 like the resolver's dot products.   *)
(***************************************************************************)
FaceIndices == 0..5

\* the face-to-symbol table as the specification lists it
SymbolOfFace(k) ==
    CASE k = 0 -> 1 [] k = 1 -> 6 [] k = 2 -> 2
      [] k = 3 -> 5 [] k = 4 -> 3 [] k = 5 -> 4

\* |q|^2 times the dot product of (rotated face k) with world up (0,1,0)
UpHeight(q, k) ==
    LET hx == 2 * (q.x * q.y + q.w * q.z)
        hy == q.w * q.w - q.x * q.x + q.y * q.y - q.z * q.z
        hz == 2 * (q.y * q.z - q.w * q.x)
    IN  CASE k = 0 -> hx [] k = 1 -> 0 - hx
          [] k = 2 -> hy [] k = 3 -> 0 - hy
          [] k = 4 -> hz [] k = 5 -> 0 - hz

\* the faces whose rotated direction is highest
HighestFaces(q) ==
    { k \in FaceIndices : \A j \in FaceIndices : UpHeight(q, j) <= UpHeight(q, k) }

\* the first of them in the enumeration +X, -X, +Y, -Y, +Z, -Z
FirstHighestFace(q) == Min(HighestFaces(q))

DiceQuaternions == { diceBodiesRef[i].quaternion : i \in DOMAIN diceBodiesRef }

\* the reveal callback runs in this step
RevealStep == Len(revealTimers') < Len(revealTimers)

\* C1: for every die orientation the resolver returns faceMap[k] for the
\* smallest face index k, in the order +X,-X,+Y,-Y,+Z,-Z, whose rotated
\* direction has the largest dot product with world up; the table is
\* 0->1, 1->6, 2->2, 3->5, 4->3, 5->4, and on a tie the first index wins.
C1_FirstMaximumWins ==
    \A q \in DiceQuaternions :
        \E k \in FaceIndices :
            /\ \A j \in FaceIndices : UpHeight(q, j) <= UpHeight(q, k)
            /\ \A j \in 0..(k - 1) : UpHeight(q, j) < UpHeight(q, k)
            /\ resolveBody(q) = SymbolOfFace(k)

\* C1 witness: die 0 is balanced with +X and +Z equally high, and the reveal
\* has given it the symbol of +X, the first of the two
C1_Witness ==
    /\ diceBodiesRef[1].quaternion = Quat(1, 1, 1, 0)
    /\ HighestFaces(Quat(1, 1, 1, 0)) = {0, 4}
    /\ results # <<>>
    /\ results[1] = 1

\* C2: whenever a die rests flat on a face (some local face direction is
\* rotated exactly onto world up) the resolver returns the symbol of that
\* face; the identity gives symbol 2 and a half turn about X gives symbol 5.
C2_FlatFaceSymbol ==
    /\ \A q \in DiceQuaternions :
          \A k \in FaceIndices :
              UpHeight(q, k) = normSquared(q) => resolveBody(q) = SymbolOfFace(k)
    /\ identityQuat \in DiceQuaternions => resolveBody(identityQuat) = 2
    /\ Quat(1, 0, 0, 0) \in DiceQuaternions => resolveBody(Quat(1, 0, 0, 0)) = 5

\* C2 witness: die 0 is turned half way round X, so -Y is exactly up, and
\* the reveal has given it symbol 5 (die 1 lies as created and got symbol 2)
C2_Witness ==
    /\ diceBodiesRef[1].quaternion = Quat(1, 0, 0, 0)
    /\ UpHeight(Quat(1, 0, 0, 0), 3) = normSquared(Quat(1, 0, 0, 0))
    /\ diceBodiesRef[2].quaternion = identityQuat
    /\ results # <<>>
    /\ results[1] = 5
    /\ results[2] = 2

\* C8: the round result keeps the order of the dice: when the reveal
\* callback runs, results[i] becomes the symbol of die i's first highest
\* face as the die is oriented then; dice with winning faces 0, 2, 5 give
\* the round result 1, 2, 4.
C8_ResultsInDieOrder ==
    [][RevealStep =>
          /\ Len(results') = Len(diceBodiesRef)
          /\ \A i \in DOMAIN diceBodiesRef :
                results'[i] =
                    SymbolOfFace(FirstHighestFace(diceBodiesRef[i].quaternion))
          /\ ( /\ FirstHighestFace(diceBodiesRef[1].quaternion) = 0
               /\ FirstHighestFace(diceBodiesRef[2].quaternion) = 2
               /\ FirstHighestFace(diceBodiesRef[3].quaternion) = 5 )
             => results' = <<1, 2, 4>>]_vars

\* C8 witness: the dice show faces 0, 2, 5 and the reveal has produced 1, 2, 4
C8_Witness ==
    /\ revealTimers = <<>>
    /\ FirstHighestFace(diceBodiesRef[1].quaternion) = 0
    /\ FirstHighestFace(diceBodiesRef[2].quaternion) = 2
    /\ FirstHighestFace(diceBodiesRef[3].quaternion) = 5
    /\ results = <<1, 2, 4>>

\* C9 as stated: for any rotation exactly one of the six rotated face
\* directions attains the maximum dot product with world up, and the
\* resolver returns the symbol mapped from that face.
C9_UniqueMaximum ==
    \A q \in DiceQuaternions :
        /\ Cardinality(HighestFaces(q)) = 1
        /\ \A k \in HighestFaces(q) : resolveBody(q) = SymbolOfFace(k)

\* C9 amended: for any rotation at least one and at most three of the six
\* rotated face directions attain the maximum dot product with world up
\* (never two opposite faces), and the resolver returns the symbol mapped
\* from the first of them in the enumeration order.
C9_MaximumAttained ==
    \A q \in DiceQuaternions :
        /\ Cardinality(HighestFaces(q)) \in 1..3
        /\ \A k \in HighestFaces(q) :
              (IF k % 2 = 0 THEN k + 1 ELSE k - 1) \notin HighestFaces(q)
        /\ resolveBody(q) = SymbolOfFace(Min(HighestFaces(q)))

\* C9 witness: die 0 is balanced on an edge with +Y and one more face
\* equally high, and the reveal has given it the symbol of the first of them
C9_Witness ==
    /\ Cardinality(HighestFaces(diceBodiesRef[1].quaternion)) = 2
    /\ results # <<>>
    /\ results[1] = SymbolOfFace(Min(HighestFaces(diceBodiesRef[1].quaternion)))
    /\ diceBodiesRef[1].velocity = "thrown"
    /\ 2 \in HighestFaces(diceBodiesRef[1].quaternion)

\* C10: yaw invariance: for every die orientation q and every rotation y
\* about the world-up axis, the resolver returns for y composed after q the
\* symbol it returns for q.
C10_YawInvariance ==
    \A q \in DiceQuaternions :
        LET symbol == resolveBody(q)
        IN  \A y \in YawRotations : resolveBody(qmult(y, q)) = symbol

\* C10 witness: die 0, a quarter turn about X (symbol 4), has been turned by
\* a quarter yaw and the reveal still gives symbol 4
C10_Witness ==
    /\ diceBodiesRef[1].quaternion = qmult(Quat(0, 1, 0, 1), Quat(1, 0, 0, 1))
    /\ diceBodiesRef[1].quaternion # Quat(1, 0, 0, 1)
    /\ resolveBody(Quat(1, 0, 0, 1)) = 4
    /\ results # <<>>
    /\ results[1] = 4

----------------------------------------------------------------------------
(***************************************************************************)
(* The phase machine.                                                      *)
(***************************************************************************)
\* C3 as stated: when the phase is Open and the user triggers the shake
\* action, the phase goes back to Shaking and the previous round result is
\* cleared.
C3_OpenShakeToShaking ==
    Phase = "Open" =>
        /\ PhaseOf(handleMainButton(State)) = "Shaking"
        /\ handleMainButton(State).results = <<>>

\* C3 amended: when the phase is Open and the user triggers the main-button
\* action, the phase goes back to Idle and the previous round result is
\* cleared.
C3_OpenShakeToIdle ==
    Phase = "Open" =>
        /\ PhaseOf(handleMainButton(State)) = "Idle"
        /\ handleMainButton(State).results = <<>>

\* C3 witness: the bowl is open with a round result on display, and the main
\* button leaves a state other than this one
C3_Witness ==
    /\ Phase = "Open"
    /\ Len(results) = NumDice
    /\ handleMainButton(State) # State

\* C4: a shake request (through handleMainButton or handleShake itself)
\* made while the phase is Shaking changes nothing: the flags, the round
\* result, the dice bodies and the timers stay as they are and no further
\* invocation is left suspended, however often the request is repeated.
C4_ShakeWhileShakingNoOp ==
    isShaking =>
        /\ handleMainButton(State) = State
        /\ handleShake(State) = State
        /\ handleShake(handleShake(State)) = State
        /\ handleMainButton(handleMainButton(State)) = State

\* C4 witness: a shake is under way (dice thrown, its settle timer pending)
C4_Witness ==
    /\ Phase = "Shaking"
    /\ settleTimers # <<>>
    /\ \A i \in DOMAIN diceBodiesRef : diceBodiesRef[i].velocity = "thrown"

\* C5 as stated: from Idle a shake action puts the game in Shaking (at once,
\* or when the Tone.start() it waits for has resolved); while Shaking no user
\* action changes the phase; when the settle timer fires the phase becomes
\* ReadyToOpen; Shaking is left by no other transition.
C5_ShakeSettlesToReady ==
    /\ Phase = "Idle" =>
          \/ PhaseOf(handleMainButton(State)) = "Shaking"
          \/ /\ handleMainButton(State).toneStarts = toneStarts + 1
             /\ PhaseOf(resumeShake(handleMainButton(State))) = "Shaking"
    /\ Phase = "Shaking" =>
          /\ PhaseOf(handleMainButton(State)) = "Shaking"
          /\ PhaseOf(toggleSound(State)) = "Shaking"
          /\ revealTimers # <<>> => PhaseOf(revealCallback(State)) = "Shaking"
    /\ (Phase = "Shaking" /\ settleTimers # <<>>) =>
          PhaseOf(settleCallback(State)) = "ReadyToOpen"

\* C6: in ReadyToOpen an open action puts the game in Open at once and
\* leaves the round result as it is; the round result is populated only by
\* the reveal callback, which runs the resolver on all three dice; an open
\* action in any other phase changes nothing; every accepted open is
\* eventually followed by a populated round result.
C6_OpenThenReveal ==
    /\ [](Phase = "ReadyToOpen" =>
            /\ PhaseOf(handleMainButton(State)) = "Open"
            /\ handleMainButton(State).results = results
            /\ handleMainButton(State).revealTimers =
                   Append(revealTimers, RevealDelay))
    /\ [](Phase # "ReadyToOpen" => openBowl(State) = State)
    /\ [][(results' # results /\ results' # <<>>) =>
             /\ RevealStep
             /\ results' = [i \in 1..NumDice |->
                               resolveBody(diceBodiesRef[i].quaternion)]]_vars
    /\ [][Len(revealTimers') > Len(revealTimers) =>
             (Phase = "ReadyToOpen" /\ isBowlOpen')]_vars
    /\ (revealTimers # <<>>) ~> (results # <<>>)

\* C6 witness: an open was accepted, its reveal timer has fired and the
\* round result is on display
C6_Witness ==
    /\ Phase = "Open"
    /\ revealTimers = <<>>
    /\ Len(results) = NumDice

\* C7: the round result is never partially populated: in every reachable
\* state results is empty or a sequence of exactly 3 values in 1..6.
C7_ResultsEmptyOrThree ==
    \/ results = <<>>
    \/ /\ Len(results) = 3
       /\ \A i \in 1..3 : results[i] \in 1..6

\* C7 witness: a round result of three symbols, not all alike
C7_Witness ==
    /\ Len(results) = 3
    /\ results[1] # results[3]

----------------------------------------------------------------------------
(***************************************************************************)
(* The dice collection.                                                    *)
(***************************************************************************)
\* C11 as stated: diceBodiesRef holds exactly three bodies after mounting and
\* after any sequence of shake, open, close and timer events and any re-run
\* of the mount effect; a shake only repositions and re-energizes the bodies
\* and neither adds nor removes one.
C11_ExactlyThreeBodies ==
    /\ Len(diceBodiesRef) = 3
    /\ Len(handleMainButton(State).diceBodiesRef) = Len(diceBodiesRef)
    /\ Len(startShake(State).diceBodiesRef) = Len(diceBodiesRef)
    /\ \A i \in DOMAIN diceBodiesRef :
          startShake(State).diceBodiesRef[i].quaternion =
              diceBodiesRef[i].quaternion

\* C12: the resolver is total: for every die orientation (a quaternion of
\* positive norm, standing for its unit quaternion) the winning index is
\* within 0..5 of the face table and the result is an integer in 1..6.
C12_ResolverTotal ==
    \A q \in DiceQuaternions :
        /\ maxDotIndex(q) \in 0..5
        /\ maxDotIndex(q) + 1 \in DOMAIN faceMap
        /\ resolveBody(q) \in 1..6

\* C12 witness: die 0 lies in no axis-aligned orientation and the reveal has
\* given it a symbol of 1..6
C12_Witness ==
    /\ diceBodiesRef[1].quaternion = Quat(1, 2, -1, 2)
    /\ results # <<>>
    /\ results[1] \in 1..6
    /\ results[1] = resolveBody(Quat(1, 2, -1, 2))

----------------------------------------------------------------------------
(***************************************************************************)
(* The phase machine, continued.                                           *)
(***************************************************************************)
\* C13: in phase Open the main-button action only resets the game: it sets
\* isBowlOpen and isReadyToOpen to false and results to [] and changes
\* nothing else (isShaking stays false, the dice bodies are untouched, no
\* settle timer is scheduled, no invocation is left suspended), so the next
\* phase is Idle; only a second main-button action starts a shake.
C13_OpenMainButtonOnlyResets ==
    Phase = "Open" =>
        /\ handleMainButton(State) =
               [State EXCEPT !.isBowlOpen = FALSE, !.isReadyToOpen = FALSE,
                             !.results = <<>>]
        /\ handleMainButton(State).isShaking = FALSE
        /\ handleMainButton(State).diceBodiesRef = diceBodiesRef
        /\ handleMainButton(State).settleTimers = settleTimers
        /\ PhaseOf(handleMainButton(State)) = "Idle"
        /\ LET again == handleMainButton(handleMainButton(State))
           IN  \/ PhaseOf(again) = "Shaking"
               \/ /\ again.toneStarts = toneStarts + 1
                  /\ PhaseOf(resumeShake(again)) = "Shaking"

\* C13 witness: the bowl is open on a round result with the dice at rest and
\* nothing pending; one main-button action gives Idle, a second one Shaking
C13_Witness ==
    /\ Phase = "Open"
    /\ results # <<>>
    /\ settleTimers = <<>> /\ revealTimers = <<>> /\ toneStarts = 0
    /\ \A i \in DOMAIN diceBodiesRef : diceBodiesRef[i].velocity = "rest"
    /\ PhaseOf(handleMainButton(State)) = "Idle"
    /\ PhaseOf(handleMainButton(handleMainButton(State))) = "Shaking"

\* C14 as stated: a non-empty round result exists only while the bowl is
\* open: in every reachable state results non-empty implies isBowlOpen and
\* not isShaking, also when the bowl was closed (and perhaps shaken again)
\* between an open action and the firing of its reveal timer; the reveal
\* callback never sets results while the phase is Idle or Shaking.
C14_ResultsOnlyWhileOpen ==
    /\ results # <<>> => (isBowlOpen /\ ~isShaking)
    /\ (revealTimers # <<>> /\ Head(revealTimers) = 0) =>
          \/ Phase \notin {"Idle", "Shaking"}
          \/ revealCallback(State).results = <<>>

\* C15 as stated: the three flags always encode exactly one of the four
\* phases: in every reachable state (isShaking, isReadyToOpen, isBowlOpen) is
\* (F,F,F) Idle, (T,F,F) Shaking, (F,T,F) ReadyToOpen or (F,T,T) Open; in
\* particular isShaking and isBowlOpen are never both true, also while a
\* handleShake is suspended at its await of Tone.start().
C15_FlagsEncodePhase ==
    /\ <<isShaking, isReadyToOpen, isBowlOpen>> \in
          { <<FALSE, FALSE, FALSE>>, <<TRUE, FALSE, FALSE>>,
            <<FALSE, TRUE, FALSE>>, <<FALSE, TRUE, TRUE>> }
    /\ ~(isShaking /\ isBowlOpen)

\* C16 as stated: at most one settle timer is pending at any time and each
\* accepted shake schedules exactly one; two shake requests issued before
\* isShaking becomes true never both pass the guard (at most one handleShake
\* is under way, suspended at its await or waiting for its timer), so the
\* dice are never re-energised twice and no stale second timer sets the
\* phase to ReadyToOpen.
C16_OneSettleTimer ==
    /\ Len(settleTimers) <= 1
    /\ toneStarts <= 1
    /\ toneStarts + Len(settleTimers) <= 1
    /\ Len(startShake(State).settleTimers) = Len(settleTimers) + 1
    /\ (settleTimers # <<>> /\ Head(settleTimers) = 0) => isShaking

=============================================================================
